---------------------------- MODULE Spec2Model ----------------------------
(***************************************************************************)
(* Session guard of the Solana wallet-connect front-end: the credential    *)
(* variant of the SignAndConnect component (src/unnamed/part_000).         *)
(*                                                                         *)
(* The component is a React function component.  Its state is the hook     *)
(* values delivered by the wallet SDK (isConnected, address,               *)
(* walletProvider), its own useState cells, one ref and the sessionStorage *)
(* slot 'authToken'.  A step of the model is one of                        *)
(*   - an external event (the SDK reports a connect, a disconnect or an    *)
(*     address change; the user presses a button),                         *)
(*   - the completion of one await of an async function in flight,         *)
(*   - Commit: React renders the current state and runs, in declaration    *)
(*     order, every effect one of whose dependencies differs from the      *)
(*     previous render.  Effects read the rendered snapshot of the state,  *)
(*     the live ref and the live store; their setState calls are batched   *)
(*     and become visible to the next render.                              *)
(* Events and completions are taken only when no render is pending: React  *)
(* flushes a scheduled render and its effects before the next task.        *)
(*                                                                         *)
(* The backend is a black box that honours its interface: a verify         *)
(* response marked success carries a token issued for the submitted        *)
(* address and a user record for it; whoAmI answered OK reports the        *)
(* owner of the token.  The address in a user record is the one submitted  *)
(* or its lower-cased form.                                                *)
(***************************************************************************)
EXTENDS Naturals, FiniteSets, Bags, TLC

\* null / undefined of the source
Null == "null"

\* wallet addresses the SDK can report (base58, mixed case)
Addrs == {"Xa", "Zb"}

\* String.prototype.toLowerCase on the strings of the model
ToLowerCase(s) ==
  CASE s = "Xa" -> "xa"
    [] s = "Zb" -> "zb"
    [] OTHER -> s

\* walletAddress values a backend user record can carry for address a
UserAddrs(a) == {a, ToLowerCase(a)}

\* credentials of the backend, and the address each was issued for: tX1 and
\* tZ1 were issued before this page was loaded, tX2 and tZ2 are the ones
\* the verify endpoint issues now
Tokens == {"tX1", "tZ1", "tX2", "tZ2"}

EarlierTokens == {"tX1", "tZ1"}

Owner(t) ==
  CASE t \in {"tX1", "tX2"} -> "Xa"
    [] t \in {"tZ1", "tZ2"} -> "Zb"
    [] OTHER -> Null

\* the token POST /api/auth/verify issues for address a
Issued(a) == CHOOSE t \in Tokens \ EarlierTokens : Owner(t) = a

\* wallet providers: one exposing disconnect(), one without it
Providers == {"pDisc", "pNoDisc"}

HasDisconnect(p) == p = "pDisc"

\* async calls in flight that the environment lets pile up before it
\* answers one of them
MaxInflight == 2

VARIABLES
  isConnected,          \* useAppKitAccount().isConnected
  address,              \* useAppKitAccount().address
  walletProvider,       \* useAppKitProvider('solana').walletProvider
  isSigned,             \* useState(false)
  isLoading,            \* useState(false)
  balance,              \* useState(null): Null or the address whose balance it is
  user,                 \* useState(null): Null or user.walletAddress
  authToken,            \* useState(() => sessionStorage.getItem('authToken'))
  userDisconnectedRef,  \* useRef(false).current
  sessionStorage,       \* the 'authToken' slot of sessionStorage
  rendered,             \* dependency values of the last render
  inflight,             \* bag of async calls awaiting their result
  fastPath,             \* history: the stored credential the current
                        \* connection can be restored from, until that
                        \* connection ends, the backend refuses the
                        \* credential or the session is restored
  localStorage,         \* simplified variant: the addresses a whose key
                        \* wallet_signed_<a> holds 'true'
  refusedFor,           \* history: the connected address, once whoAmI has
                        \* refused or failed on the stored credential
                        \* under the current connection and address
  refreshTrigger,       \* useState(0)
  transferType,         \* TokenTransfer: useState('SOL')
  recipientAddress,     \* TokenTransfer: useState('')
  amount,               \* TokenTransfer: useState('')
  tokenMint,            \* TokenTransfer: useState('')
  isTransferring,       \* TokenTransfer: useState(false)
  transferBalance,      \* TokenTransfer: its own balance, {} for null
  error                 \* TokenTransfer: useState(null)

\* the state of TokenTransfer, and the counter its callback advances
transferVars == <<refreshTrigger, transferType, recipientAddress, amount,
                  tokenMint, isTransferring, transferBalance, error>>

vars == <<isConnected, address, walletProvider, isSigned, isLoading, balance,
          user, authToken, userDisconnectedRef, sessionStorage, rendered,
          inflight, fastPath, localStorage, refusedFor, transferVars>>

----------------------------------------------------------------------------
\* Async calls in flight

\* an awaited call: which function awaits, which await it is at, and the
\* values its closure captured
Call(fn, at, a, t, p) ==
  [fn |-> fn, at |-> at, address |-> a, token |-> t, provider |-> p]

Start(bag, c) == bag (+) SetToBag({c})

Finish(bag, c) == bag (-) SetToBag({c})

Pending == BagToSet(inflight)

PendingOf(fn) == {c \in Pending : c.fn = fn}

\* the environment has answered enough calls to let a new event in
Busy == BagCardinality(inflight) >= MaxInflight

----------------------------------------------------------------------------
\* Rendering

\* the values the effects' dependency arrays compare
Deps ==
  [mounted |-> TRUE, isConnected |-> isConnected, address |-> address,
   walletProvider |-> walletProvider, isSigned |-> isSigned, user |-> user,
   authToken |-> authToken]

\* a render is scheduled: some state differs from what was last rendered
Dirty == rendered # Deps

\* an effect runs on mount and whenever one of its dependencies changed
EffectRuns(deps) ==
  \/ ~rendered.mounted
  \/ \E d \in deps : rendered[d] # Deps[d]


----------------------------------------------------------------------------
\* The effects, as the render that runs them sees them

\* mutant: the two addresses are compared as they are
AddressMismatch_CaseSensitive(a, w) == a # w

\* the comparison both the fast path and the address-change effect make
AddressMismatch(a, w) == ToLowerCase(a) # ToLowerCase(w)

\* effect 1: verifySession is called and reaches its fetch of /api/auth/me
VerifySessionStarts ==
  /\ EffectRuns({"isConnected", "address"})
  /\ isConnected /\ ~userDisconnectedRef
  /\ sessionStorage # Null /\ address # Null

\* mutant: the effect does not depend on address
AddressChangeClears_NoAddressDep ==
  /\ EffectRuns({"isConnected", "isSigned", "user"})
  /\ isConnected /\ address # Null /\ isSigned /\ user # Null
  /\ ToLowerCase(address) # ToLowerCase(user)

\* effect 2: the connected address is not the authenticated user's
AddressChangeClears ==
  /\ EffectRuns({"address", "isConnected", "isSigned", "user"})
  /\ isConnected /\ address # Null /\ isSigned /\ user # Null
  /\ AddressMismatch(address, user)

\* effect 3: fetchBalance
FetchBalanceRuns == EffectRuns({"isConnected", "address", "isSigned"})

FetchBalanceStarts ==
  FetchBalanceRuns /\ isConnected /\ address # Null /\ isSigned

FetchBalanceClears ==
  FetchBalanceRuns /\ ~(isConnected /\ address # Null /\ isSigned)

\* mutant: the effect does not depend on authToken
AutoSignStarts_NoTokenDep ==
  /\ EffectRuns({"isConnected", "walletProvider", "isSigned", "address"})
  /\ isConnected /\ ~isSigned /\ walletProvider # Null /\ address # Null
  /\ ~userDisconnectedRef /\ authToken = Null

\* mutant: the effect does not look at the explicit-disconnect latch
AutoSignStarts_IgnoresLatch ==
  /\ EffectRuns({"isConnected", "walletProvider", "isSigned", "address",
                 "authToken"})
  /\ isConnected /\ ~isSigned /\ walletProvider # Null /\ address # Null
  /\ authToken = Null

\* mutant: the effect does not look at the credential held in memory
AutoSignStarts_IgnoresToken ==
  /\ EffectRuns({"isConnected", "walletProvider", "isSigned", "address",
                 "authToken"})
  /\ isConnected /\ ~isSigned /\ walletProvider # Null /\ address # Null
  /\ ~userDisconnectedRef

\* mutant: the effect has no dependency array and runs after every render
AutoSignStarts_EveryRender ==
  /\ isConnected /\ ~isSigned /\ walletProvider # Null /\ address # Null
  /\ ~userDisconnectedRef /\ authToken = Null

\* effect 4: the auto-sign effect calls handleSignMessage, which passes its
\* own guard and awaits provider.signMessage
AutoSignStarts ==
  /\ EffectRuns({"isConnected", "walletProvider", "isSigned", "address",
                 "authToken"})
  /\ isConnected /\ ~isSigned /\ walletProvider # Null /\ address # Null
  /\ ~userDisconnectedRef /\ authToken = Null

\* mutant: the effect clears the session on every disconnect
DisconnectClears_Always ==
  /\ EffectRuns({"isConnected", "address"})
  /\ ~isConnected

\* effect 5: the wallet is disconnected and the user asked for it
DisconnectClears ==
  /\ EffectRuns({"isConnected", "address"})
  /\ ~isConnected /\ userDisconnectedRef

\* some effect of this render signs the session out
SessionCleared == AddressChangeClears \/ DisconnectClears

\* the async calls this render's effects start
Started ==
  LET b1 == IF VerifySessionStarts
            THEN Start(inflight,
                       Call("verifySession", "whoAmI", address,
                            sessionStorage, Null))
            ELSE inflight
      b3 == IF FetchBalanceStarts
            THEN Start(b1, Call("fetchBalance", "getBalance", address,
                                Null, Null))
            ELSE b1
  IN  IF AutoSignStarts
      THEN Start(b3, Call("handleSignMessage", "signMessage", address,
                          Null, walletProvider))
      ELSE b3

\* React renders and runs the effects whose dependencies changed
Commit ==
  /\ Dirty
  /\ rendered' = Deps
  /\ sessionStorage' = IF SessionCleared THEN Null ELSE sessionStorage
  /\ authToken' = IF SessionCleared THEN Null ELSE authToken
  /\ isSigned' = IF SessionCleared THEN FALSE ELSE isSigned
  /\ user' = IF SessionCleared THEN Null ELSE user
  /\ balance' = IF AddressChangeClears \/ FetchBalanceClears
                THEN Null ELSE balance
  /\ isLoading' = IF AutoSignStarts THEN TRUE ELSE isLoading
  /\ inflight' = Started
  /\ UNCHANGED <<isConnected, address, walletProvider, userDisconnectedRef>>
  /\ UNCHANGED fastPath
  /\ UNCHANGED localStorage
  /\ UNCHANGED refusedFor
  /\ UNCHANGED transferVars

----------------------------------------------------------------------------
\* Events of the wallet SDK

\* the credential a connection with address a finds in the store and can be
\* restored from: one issued for a, with the latch clear
Restorable(a) ==
  IF sessionStorage # Null /\ Owner(sessionStorage) = a /\ ~userDisconnectedRef
  THEN sessionStorage ELSE Null

\* the SDK reports a connection (through the modal or by restoring one)
ProviderConnect(a, p) ==
  /\ ~Dirty /\ ~Busy /\ ~isConnected
  /\ isConnected' = TRUE
  /\ address' = a
  /\ walletProvider' = p
  /\ UNCHANGED <<isSigned, isLoading, balance, user, authToken,
                 userDisconnectedRef, sessionStorage, rendered, inflight>>
  /\ fastPath' = Restorable(a)
  /\ UNCHANGED localStorage
  /\ refusedFor' = Null
  /\ UNCHANGED transferVars

\* the provider object becomes available after the connection was reported
WalletProviderReady(p) ==
  /\ ~Dirty /\ ~Busy /\ isConnected /\ walletProvider = Null
  /\ walletProvider' = p
  /\ UNCHANGED <<isConnected, address, isSigned, isLoading, balance, user,
                 authToken, userDisconnectedRef, sessionStorage, rendered,
                 inflight>>
  /\ UNCHANGED fastPath
  /\ UNCHANGED localStorage
  /\ UNCHANGED refusedFor
  /\ UNCHANGED transferVars

\* what every disconnect does to the hook values
Disconnected ==
  /\ isConnected' = FALSE
  /\ address' = Null
  /\ walletProvider' = Null
  /\ fastPath' = Null
  /\ refusedFor' = Null

\* the wallet disconnects without handleDisconnect having been called
ProviderDisconnect ==
  /\ ~Dirty /\ isConnected
  /\ Disconnected
  /\ UNCHANGED <<isSigned, isLoading, balance, user, authToken,
                 userDisconnectedRef, sessionStorage, rendered, inflight>>
  /\ UNCHANGED localStorage
  /\ UNCHANGED transferVars

\* the user switches account in the wallet while it stays connected
AddressChange(z) ==
  /\ ~Dirty /\ ~Busy /\ isConnected /\ z # address
  /\ address' = z
  /\ UNCHANGED <<isConnected, walletProvider, isSigned, isLoading, balance,
                 user, authToken, userDisconnectedRef, sessionStorage,
                 rendered, inflight>>
  /\ fastPath' = Null
  /\ UNCHANGED localStorage
  /\ refusedFor' = Null
  /\ UNCHANGED transferVars

----------------------------------------------------------------------------
\* Buttons

\* the Connect Wallet button is rendered
ConnectButtonShown == ~isConnected

\* the Disconnect Wallet button is rendered
DisconnectButtonShown == isConnected /\ ~isLoading /\ isSigned

\* the TokenTransfer component is rendered
TokenTransferShown == isConnected /\ ~isLoading /\ isSigned

handleConnect ==
  /\ ~Dirty /\ ConnectButtonShown
  /\ isSigned' = FALSE
  /\ userDisconnectedRef' = FALSE
  /\ UNCHANGED <<isConnected, address, walletProvider, isLoading, balance,
                 user, authToken, sessionStorage, rendered, inflight>>
  /\ UNCHANGED fastPath
  /\ UNCHANGED localStorage
  /\ UNCHANGED refusedFor
  /\ UNCHANGED transferVars

\* mutant: the user record is not cleared
handleDisconnect_KeepsUser ==
  /\ ~Dirty /\ DisconnectButtonShown
  /\ sessionStorage' = Null
  /\ isSigned' = FALSE
  /\ authToken' = Null
  /\ userDisconnectedRef' = TRUE
  /\ inflight' = Start(inflight,
                       Call("handleDisconnect", "disconnect", Null, Null,
                            Null))
  /\ UNCHANGED <<isConnected, address, walletProvider, isLoading, balance,
                 user, rendered, localStorage>>
  /\ fastPath' = Null
  /\ refusedFor' = Null
  /\ UNCHANGED transferVars

handleDisconnect ==
  /\ ~Dirty /\ DisconnectButtonShown
  /\ sessionStorage' = Null
  /\ isSigned' = FALSE
  /\ user' = Null
  /\ authToken' = Null
  /\ userDisconnectedRef' = TRUE
  /\ inflight' = Start(inflight,
                       Call("handleDisconnect", "disconnect", Null, Null,
                            Null))
  /\ UNCHANGED <<isConnected, address, walletProvider, isLoading, balance,
                 rendered>>
  /\ fastPath' = Null
  /\ UNCHANGED localStorage
  /\ refusedFor' = Null
  /\ UNCHANGED transferVars

\* AppKit's disconnect() called by handleDisconnect takes effect
DisconnectDone(c) ==
  /\ ~Dirty /\ c \in PendingOf("handleDisconnect")
  /\ inflight' = Finish(inflight, c)
  /\ Disconnected
  /\ UNCHANGED <<isSigned, isLoading, balance, user, authToken,
                 userDisconnectedRef, sessionStorage, rendered>>
  /\ UNCHANGED localStorage
  /\ UNCHANGED transferVars

----------------------------------------------------------------------------
\* verifySession resumes after its fetch of /api/auth/me

\* the purge every branch of verifySession but the matching one performs
WhoAmIPurges ==
  /\ sessionStorage' = Null
  /\ authToken' = Null
  /\ isSigned' = FALSE

\* response.ok, and data.user.walletAddress is w
WhoAmIOk(c, w) ==
  /\ ~Dirty /\ c \in PendingOf("verifySession")
  /\ w \in UserAddrs(Owner(c.token))
  /\ inflight' = Finish(inflight, c)
  /\ IF ~AddressMismatch(c.address, w)
     THEN /\ user' = w
          /\ isSigned' = TRUE
          /\ authToken' = c.token
          /\ UNCHANGED sessionStorage
     ELSE /\ WhoAmIPurges
          /\ user' = Null
  /\ UNCHANGED <<isConnected, address, walletProvider, isLoading, balance,
                 userDisconnectedRef, rendered>>
  /\ fastPath' = IF isConnected /\ c.address = address /\ ~AddressMismatch(c.address, w)
                 THEN Null ELSE fastPath
  /\ UNCHANGED localStorage
  /\ UNCHANGED refusedFor
  /\ UNCHANGED transferVars

\* history: whoAmI refuses or fails on the credential that is stored, the
\* wallet being connected and the latch clear
Refused(c) ==
  IF isConnected /\ ~userDisconnectedRef /\ c.token = sessionStorage
  THEN address ELSE refusedFor

\* the response is not OK: the token is invalid or expired
WhoAmINotOk(c) ==
  /\ ~Dirty /\ c \in PendingOf("verifySession")
  /\ inflight' = Finish(inflight, c)
  /\ WhoAmIPurges
  /\ user' = Null
  /\ UNCHANGED <<isConnected, address, walletProvider, isLoading, balance,
                 userDisconnectedRef, rendered>>
  /\ fastPath' = IF c.token = fastPath THEN Null ELSE fastPath
  /\ UNCHANGED localStorage
  /\ refusedFor' = Refused(c)
  /\ UNCHANGED transferVars

\* fetch or response.json() throws: the catch block
WhoAmIError(c) ==
  /\ ~Dirty /\ c \in PendingOf("verifySession")
  /\ inflight' = Finish(inflight, c)
  /\ WhoAmIPurges
  /\ UNCHANGED <<isConnected, address, walletProvider, isLoading, balance,
                 user, userDisconnectedRef, rendered>>
  /\ fastPath' = IF c.token = fastPath THEN Null ELSE fastPath
  /\ UNCHANGED localStorage
  /\ refusedFor' = Refused(c)
  /\ UNCHANGED transferVars

----------------------------------------------------------------------------
\* handleSignMessage resumes after one of its awaits

SigningAt(at) == {c \in PendingOf("handleSignMessage") : c.at = at}

\* the call moves on to its next await
Moves(c, at) ==
  Start(Finish(inflight, c),
        Call("handleSignMessage", at, c.address, c.token, c.provider))

\* mutant: no finally block, isLoading is reset only after the try body
Caught_NoFinally(c) ==
  IF HasDisconnect(c.provider)
  THEN /\ inflight' = Moves(c, "disconnect")
       /\ UNCHANGED isLoading
  ELSE /\ inflight' = Finish(inflight, c)
       /\ UNCHANGED isLoading

\* the catch block followed by finally: disconnect the provider when it
\* can, then reset isLoading
Caught(c) ==
  IF HasDisconnect(c.provider)
  THEN /\ inflight' = Moves(c, "disconnect")
       /\ UNCHANGED isLoading
  ELSE /\ inflight' = Finish(inflight, c)
       /\ isLoading' = FALSE

\* the user approves: a signature comes back and the verify request is sent
SignMessageResolves(c) ==
  /\ ~Dirty /\ c \in SigningAt("signMessage")
  /\ inflight' = Moves(c, "verify")
  /\ UNCHANGED <<isConnected, address, walletProvider, isSigned, isLoading,
                 balance, user, authToken, userDisconnectedRef,
                 sessionStorage, rendered>>
  /\ UNCHANGED fastPath
  /\ UNCHANGED localStorage
  /\ UNCHANGED refusedFor
  /\ UNCHANGED transferVars

\* signMessage resolves with nothing: the if is skipped, finally runs
SignMessageEmpty(c) ==
  /\ ~Dirty /\ c \in SigningAt("signMessage")
  /\ inflight' = Finish(inflight, c)
  /\ isLoading' = FALSE
  /\ UNCHANGED <<isConnected, address, walletProvider, isSigned, balance,
                 user, authToken, userDisconnectedRef, sessionStorage,
                 rendered>>
  /\ UNCHANGED fastPath
  /\ UNCHANGED localStorage
  /\ UNCHANGED refusedFor
  /\ UNCHANGED transferVars

\* the user rejects the signature request: signMessage throws
SignMessageRejects(c) ==
  /\ ~Dirty /\ c \in SigningAt("signMessage")
  /\ Caught(c)
  /\ UNCHANGED <<isConnected, address, walletProvider, isSigned, balance,
                 user, authToken, userDisconnectedRef, sessionStorage,
                 rendered>>
  /\ UNCHANGED fastPath
  /\ UNCHANGED localStorage
  /\ UNCHANGED refusedFor
  /\ UNCHANGED transferVars

\* the backend answers {success: true, token: t, user: {walletAddress: w}}
VerifySuccess(c, t, w) ==
  /\ ~Dirty /\ c \in SigningAt("verify")
  /\ t = Issued(c.address) /\ w \in UserAddrs(c.address)
  /\ inflight' = Finish(inflight, c)
  /\ user' = w
  /\ authToken' = t
  /\ sessionStorage' = t
  /\ isSigned' = TRUE
  /\ isLoading' = FALSE
  /\ UNCHANGED <<isConnected, address, walletProvider, balance,
                 userDisconnectedRef, rendered>>
  /\ UNCHANGED fastPath
  /\ UNCHANGED localStorage
  /\ UNCHANGED refusedFor
  /\ UNCHANGED transferVars

\* mutant: the token of a refused verification is stored all the same
VerifyFailure_StoresToken(c) ==
  /\ ~Dirty /\ c \in {d \in PendingOf("handleSignMessage") : d.at = "verify"}
  /\ inflight' = inflight (-) SetToBag({c})
  /\ isLoading' = FALSE
  /\ authToken' = Issued(c.address)
  /\ sessionStorage' = Issued(c.address)
  /\ UNCHANGED <<isConnected, address, walletProvider, isSigned, balance,
                 user, userDisconnectedRef, rendered, fastPath>>
  /\ UNCHANGED localStorage
  /\ UNCHANGED refusedFor
  /\ UNCHANGED transferVars

\* the backend answers {success: false}
VerifyFailure(c) ==
  /\ ~Dirty /\ c \in SigningAt("verify")
  /\ inflight' = Finish(inflight, c)
  /\ isLoading' = FALSE
  /\ UNCHANGED <<isConnected, address, walletProvider, isSigned, balance,
                 user, authToken, userDisconnectedRef, sessionStorage,
                 rendered>>
  /\ UNCHANGED fastPath
  /\ UNCHANGED localStorage
  /\ UNCHANGED refusedFor
  /\ UNCHANGED transferVars

\* the request fails or the body is not JSON: fetch or json() throws
VerifyError(c) ==
  /\ ~Dirty /\ c \in SigningAt("verify")
  /\ Caught(c)
  /\ UNCHANGED <<isConnected, address, walletProvider, isSigned, balance,
                 user, authToken, userDisconnectedRef, sessionStorage,
                 rendered>>
  /\ UNCHANGED fastPath
  /\ UNCHANGED localStorage
  /\ UNCHANGED refusedFor
  /\ UNCHANGED transferVars

\* provider.disconnect() of the catch block returns; finally runs
ProviderDisconnectDone(c) ==
  /\ ~Dirty /\ c \in SigningAt("disconnect")
  /\ inflight' = Finish(inflight, c)
  /\ isLoading' = FALSE
  /\ IF walletProvider = c.provider
     THEN Disconnected
     ELSE UNCHANGED <<isConnected, address, walletProvider, fastPath,
                      refusedFor>>
  /\ UNCHANGED <<isSigned, balance, user, authToken, userDisconnectedRef,
                 sessionStorage, rendered>>
  /\ UNCHANGED localStorage
  /\ UNCHANGED transferVars

\* provider.disconnect() of the catch block throws: finally runs, the
\* wallet stays as it is
ProviderDisconnectThrows(c) ==
  /\ ~Dirty /\ c \in SigningAt("disconnect")
  /\ inflight' = Finish(inflight, c)
  /\ isLoading' = FALSE
  /\ UNCHANGED <<isConnected, address, walletProvider, isSigned, balance,
                 user, authToken, userDisconnectedRef, sessionStorage,
                 rendered, fastPath, localStorage, refusedFor>>
  /\ UNCHANGED transferVars

----------------------------------------------------------------------------
\* fetchBalance resumes after connection.getBalance

BalanceArrives(c) ==
  /\ ~Dirty /\ c \in PendingOf("fetchBalance")
  /\ inflight' = Finish(inflight, c)
  /\ balance' = c.address
  /\ UNCHANGED <<isConnected, address, walletProvider, isSigned, isLoading,
                 user, authToken, userDisconnectedRef, sessionStorage,
                 rendered>>
  /\ UNCHANGED fastPath
  /\ UNCHANGED localStorage
  /\ UNCHANGED refusedFor
  /\ UNCHANGED transferVars

BalanceFails(c) ==
  /\ ~Dirty /\ c \in PendingOf("fetchBalance")
  /\ inflight' = Finish(inflight, c)
  /\ balance' = Null
  /\ UNCHANGED <<isConnected, address, walletProvider, isSigned, isLoading,
                 user, authToken, userDisconnectedRef, sessionStorage,
                 rendered>>
  /\ UNCHANGED fastPath
  /\ UNCHANGED localStorage
  /\ UNCHANGED refusedFor
  /\ UNCHANGED transferVars

----------------------------------------------------------------------------
\* handleTransactionComplete, the onTransactionComplete prop of TokenTransfer:
\* the balance of the address of the render the prop belongs to is fetched
\* again (setRefreshTrigger is the caller's refreshTrigger' below)
handleTransactionComplete(bag, a) ==
  IF a # Null
  THEN Start(bag, Call("handleTransactionComplete", "getBalance", a, Null,
                       Null))
  ELSE bag

RefreshArrives(c) ==
  /\ ~Dirty /\ c \in PendingOf("handleTransactionComplete")
  /\ inflight' = Finish(inflight, c)
  /\ balance' = c.address
  /\ UNCHANGED <<isConnected, address, walletProvider, isSigned, isLoading,
                 user, authToken, userDisconnectedRef, sessionStorage,
                 rendered, fastPath, localStorage, refusedFor>>
  /\ UNCHANGED transferVars

\* the catch block only logs
RefreshFails(c) ==
  /\ ~Dirty /\ c \in PendingOf("handleTransactionComplete")
  /\ inflight' = Finish(inflight, c)
  /\ UNCHANGED <<isConnected, address, walletProvider, isSigned, isLoading,
                 balance, user, authToken, userDisconnectedRef,
                 sessionStorage, rendered, fastPath, localStorage,
                 refusedFor>>
  /\ UNCHANGED transferVars

----------------------------------------------------------------------------
\* The component before its first render: the tab's sessionStorage may hold
\* a credential of an earlier page load, and the wallet is not connected yet
Init ==
  /\ isConnected = FALSE
  /\ address = Null
  /\ walletProvider = Null
  /\ isSigned = FALSE
  /\ isLoading = FALSE
  /\ balance = Null
  /\ user = Null
  /\ sessionStorage \in EarlierTokens \cup {Null}
  /\ authToken = sessionStorage
  /\ userDisconnectedRef = FALSE
  /\ rendered = [mounted |-> FALSE, isConnected |-> FALSE, address |-> Null,
                 walletProvider |-> Null, isSigned |-> FALSE, user |-> Null,
                 authToken |-> Null]
  /\ inflight = EmptyBag
  /\ fastPath = Null
  /\ localStorage = {}
  /\ refusedFor = Null
  /\ refreshTrigger = 0
  /\ transferType = "SOL"
  /\ recipientAddress = ""
  /\ amount = ""
  /\ tokenMint = ""
  /\ isTransferring = FALSE
  /\ transferBalance = {}
  /\ error = Null

Next ==
  \/ Commit
  \/ \E a \in Addrs, p \in Providers \cup {Null} : ProviderConnect(a, p)
  \/ \E p \in Providers : WalletProviderReady(p)
  \/ ProviderDisconnect
  \/ \E z \in Addrs : AddressChange(z)
  \/ handleConnect
  \/ handleDisconnect
  \/ \E c \in Pending : DisconnectDone(c)
  \/ \E c \in Pending, w \in UNION {UserAddrs(a) : a \in Addrs} : WhoAmIOk(c, w)
  \/ \E c \in Pending : WhoAmINotOk(c)
  \/ \E c \in Pending : WhoAmIError(c)
  \/ \E c \in Pending : SignMessageResolves(c)
  \/ \E c \in Pending : SignMessageEmpty(c)
  \/ \E c \in Pending : SignMessageRejects(c)
  \/ \E c \in Pending, t \in Tokens, w \in UNION {UserAddrs(a) : a \in Addrs} :
       VerifySuccess(c, t, w)
  \/ \E c \in Pending : VerifyFailure(c)
  \/ \E c \in Pending : VerifyError(c)
  \/ \E c \in Pending : ProviderDisconnectDone(c)
  \/ \E c \in Pending : ProviderDisconnectThrows(c)
  \/ \E c \in Pending : BalanceArrives(c)
  \/ \E c \in Pending : BalanceFails(c)

Spec == Init /\ [][Next]_vars

----------------------------------------------------------------------------
\* Vocabulary of the claims

\* React has rendered the current state and run its effects
Stable == ~Dirty

\* the step is a render
Rendering == Dirty /\ rendered' = Deps

\* the states of the guard, as the component's JSX tells them apart
Authenticating == isConnected /\ isLoading

Authenticated == isConnected /\ ~isLoading /\ isSigned

ConnectedUnauthenticated == isConnected /\ ~isLoading /\ ~isSigned

\* the session fields are empty and the store slot is absent
Purged ==
  /\ sessionStorage = Null /\ authToken = Null
  /\ user = Null /\ ~isSigned

----------------------------------------------------------------------------
\* the two addresses are the same up to case
SameAddress(a, w) == ToLowerCase(a) = ToLowerCase(w)

\* C1: whenever the signed flag is set (and React has settled), the wallet
\* is connected, a credential is held and the user record's address equals
\* the connected address case-insensitively.
C1_SignedImpliesSession ==
  (Stable /\ isSigned) =>
    /\ isConnected
    /\ authToken # Null
    /\ user # Null
    /\ SameAddress(address, user)

\* C2: between handleDisconnect and the next handleConnect (exactly the
\* states in which the latch is set) the store slot is absent, also once
\* React has settled after a late whoAmI or verify completion.
C2_ExplicitDisconnectKeepsStoreEmpty ==
  (Stable /\ userDisconnectedRef) => sessionStorage = Null

\* the wallet went from connected to disconnected in this step, or this
\* step is the render that shows the disconnect to the effects
DisconnectObserved ==
  \/ isConnected /\ ~isConnected'
  \/ Rendering /\ rendered.isConnected /\ ~isConnected

\* C3: a disconnect with the latch clear, and the render whose disconnect
\* effect observes it, leave the store slot as it was.
C3_ProviderDisconnectKeepsCredential ==
  [][(DisconnectObserved /\ ~userDisconnectedRef)
       => sessionStorage' = sessionStorage]_vars

\* the disconnect effect has run after an unrequested disconnect of a signed
\* session, and the credential is still stored
C3_Witness ==
  /\ Stable /\ ~isConnected /\ ~userDisconnectedRef
  /\ isSigned /\ user # Null
  /\ sessionStorage # Null /\ authToken = sessionStorage

\* C4: from a connect that finds in the store a credential issued for the
\* connecting address (latch clear) until the session is restored, and as
\* long as the backend accepts that credential, the credential stays in the
\* store and no render starts handleSignMessage.
C4_FastPathNoSignPrompt ==
  /\ [](fastPath # Null => sessionStorage = fastPath)
  /\ [][fastPath # Null => ~(Rendering /\ AutoSignStarts)]_vars

\* verifySession resumes in this step from a whoAmI call made with a
\* credential that was issued for another address than the one it captured
ForeignWhoAmIAnswered ==
  \E c \in PendingOf("verifySession") :
    /\ inflight' = Finish(inflight, c)
    /\ Owner(c.token) # c.address

\* the render that shows the effects a new connection or a new address
\* while the store holds a credential issued for another address
ForeignCredentialRendered ==
  /\ Rendering /\ isConnected /\ address # Null
  /\ ~rendered.isConnected \/ rendered.address # address
  /\ sessionStorage # Null /\ Owner(sessionStorage) # address

WhoAmICall == Call("verifySession", "whoAmI", address, sessionStorage, Null)

\* the render that first sees the credential of another address gone while
\* the wallet is connected, unsigned, with its provider, and the user has
\* not pressed Disconnect
PurgeRendered ==
  /\ Rendering /\ rendered.authToken # Null /\ authToken = Null
  /\ rendered.isConnected /\ rendered.address = address
  /\ Owner(rendered.authToken) # address
  /\ isConnected /\ ~isSigned /\ walletProvider # Null /\ address # Null
  /\ ~userDisconnectedRef

SignCall == Call("handleSignMessage", "signMessage", address, Null,
                 walletProvider)

SignAttemptFails ==
  \E c \in PendingOf("handleSignMessage") :
    \/ SignMessageRejects(c)
    \/ SignMessageEmpty(c)
    \/ VerifyFailure(c)
    \/ VerifyError(c)
    \/ ProviderDisconnectDone(c)
    \/ ProviderDisconnectThrows(c)

\* C6: the store slot receives a value only in the step in which verify
\* answered success, and no failure path of handleSignMessage changes the
\* slot, the in-memory credential, the user record or the signed flag.
C6_OnlySuccessWritesCredential ==
  /\ [][(sessionStorage' # sessionStorage /\ sessionStorage' # Null)
          => \E c \in SigningAt("verify") :
               VerifySuccess(c, sessionStorage', user')]_vars
  /\ [][SignAttemptFails
          => UNCHANGED <<sessionStorage, authToken, user, isSigned>>]_vars

\* a signing attempt has failed and ended: the wallet is still connected
\* with a provider, nothing is in flight and there is no session
C6_Witness ==
  /\ Stable /\ isConnected /\ walletProvider # Null /\ ~userDisconnectedRef
  /\ ~isSigned /\ ~isLoading /\ inflight = EmptyBag
  /\ sessionStorage = Null /\ authToken = Null

\* the connected address is not the one of the authenticated user record
AddressDrift ==
  /\ isConnected /\ isSigned /\ address # Null /\ user # Null
  /\ ~SameAddress(address, user)

\* C7: address drift is never left standing once React has settled; the
\* step taken from a state with address drift removes the credential from
\* the store, clears user record, signed flag, in-memory credential and
\* balance, and leaves the wallet connected; taken from Authenticated, it
\* ends in ConnectedUnauthenticated.
C7_AddressDriftPurges ==
  /\ [](Stable => ~AddressDrift)
  /\ [][AddressDrift => (isConnected' /\ Purged' /\ balance' = Null)]_vars
  /\ [][(AddressDrift /\ Authenticated) => ConnectedUnauthenticated']_vars

\* the last render saw address drift and the session is now purged
C7_Witness ==
  /\ isConnected /\ address = rendered.address
  /\ rendered.isConnected /\ rendered.isSigned /\ rendered.user # Null
  /\ ~SameAddress(rendered.address, rendered.user)
  /\ ConnectedUnauthenticated /\ Purged /\ balance = Null
  /\ \E c \in PendingOf("fetchBalance") : c.address # address

\* verify answers success for a call made for the connected address
VerifiedFor(c, t, w) ==
  /\ VerifySuccess(c, t, w)
  /\ isConnected /\ c.address = address

\* C8: when verify answers success with token t and user record w for the
\* connected address, the store and the in-memory credential hold t, the
\* user record is w and the signed flag is set; and the render that follows
\* the adoption of a record for the connected address keeps all of them.
C8_VerifySuccessAuthenticates ==
  /\ [][\A c \in Pending, t \in Tokens, w \in UserAddrs(address) :
          VerifiedFor(c, t, w)
            => (sessionStorage' = t /\ authToken' = t /\ user' = w
                /\ Authenticated')]_vars
  /\ [][(Rendering /\ Authenticated /\ ~rendered.isSigned /\ user # Null
         /\ SameAddress(address, user))
          => (Authenticated' /\ UNCHANGED <<sessionStorage, authToken, user>>)]_vars

\* settled in Authenticated on a token verify issued in this page load, with
\* the backend's lower-cased user record
C8_Witness ==
  /\ Stable /\ Authenticated /\ ~isLoading
  /\ sessionStorage = Issued(address) /\ authToken = sessionStorage
  /\ user = ToLowerCase(address) /\ user # address

\* handleSignMessage resumes in this step from a rejected signMessage
Rejected(c) == c \in SigningAt("signMessage") /\ SignMessageRejects(c)

\* C9: a rejected signature request leaves the store unchanged and calls
\* the provider's disconnect exactly when the provider has one; when the
\* attempt ends (at once, or after that disconnect) the guard is unsigned
\* and not loading.
C9_RejectionEndsUnauthenticated ==
  /\ [][\A c \in Pending :
          Rejected(c)
            => /\ sessionStorage' = sessionStorage
               /\ HasDisconnect(c.provider)
                    <=> inflight' = Moves(c, "disconnect")
               /\ ~HasDisconnect(c.provider) => (~isSigned' /\ ~isLoading')]_vars
  /\ [][\A c \in SigningAt("disconnect") :
          ProviderDisconnectDone(c)
            => (sessionStorage' = sessionStorage /\ ~isSigned' /\ ~isLoading')]_vars

\* a whoAmI or verify call is answered in this step although the wallet is
\* no longer connected with the address the call captured
StaleAnswer ==
  \E c \in PendingOf("verifySession") \cup SigningAt("verify") :
    /\ inflight' = Finish(inflight, c) \/ inflight' = Moves(c, "disconnect")
    /\ ~isConnected \/ address # c.address

\* C10: the answer to a whoAmI or verify call that arrives after the wallet
\* disconnected or changed address is discarded: signed flag, user record,
\* in-memory credential and store slot stay as they are.
C10_StaleAnswerDiscarded ==
  [][StaleAnswer
       => UNCHANGED <<isSigned, user, authToken, sessionStorage>>]_vars

\* the signing attempts in progress: calls of handleSignMessage between
\* setIsLoading(true) and the finally block
SignAttempts ==
  BagCardinality([c \in PendingOf("handleSignMessage") |-> inflight[c]])

\* C11: at most one signing attempt is in progress at any time, and the
\* auto-sign effect starts one only when none is in progress.
C11_SingleSignAttempt ==
  /\ [](SignAttempts <= 1)
  /\ [][(Rendering /\ AutoSignStarts) => SignAttempts = 0]_vars

----------------------------------------------------------------------------
\* The simplified variant of SignAndConnect (src/unnamed/part_001): no
\* backend, the signed state of address a is the localStorage key
\* wallet_signed_<a>.  The hooks, the buttons' visibility, fetchBalance and
\* the catch block of handleSignMessage are those of the credential variant;
\* user, authToken and sessionStorage do not exist and stay Null.

\* effect 1: the signed state of the connected address is loaded
LoadSignedState ==
  /\ EffectRuns({"address"})
  /\ address # Null /\ address \in localStorage

\* effect 3: the auto-sign effect finds no flag and calls handleSignMessage
AutoSignStarts_simple ==
  /\ EffectRuns({"isConnected", "walletProvider", "isSigned", "address"})
  /\ isConnected /\ ~isSigned /\ walletProvider # Null /\ address # Null
  /\ ~userDisconnectedRef
  /\ address \notin localStorage

\* effect 4, first branch: the wallet is not connected
DisconnectClears_simple ==
  /\ EffectRuns({"isConnected", "address"})
  /\ ~isConnected

\* effect 4, second branch: connected, the latch is reset
LatchResets ==
  /\ EffectRuns({"isConnected", "address"})
  /\ isConnected

Started_simple ==
  LET b2 == IF FetchBalanceStarts
            THEN Start(inflight, Call("fetchBalance", "getBalance", address,
                                      Null, Null))
            ELSE inflight
  IN  IF AutoSignStarts_simple
      THEN Start(b2, Call("handleSignMessage", "signMessage", address,
                          Null, walletProvider))
      ELSE b2

Commit_simple ==
  /\ Dirty
  /\ rendered' = Deps
  /\ isSigned' = IF DisconnectClears_simple THEN FALSE
                 ELSE IF LoadSignedState THEN TRUE ELSE isSigned
  /\ localStorage' = IF DisconnectClears_simple /\ address # Null
                     THEN localStorage \ {address} ELSE localStorage
  /\ userDisconnectedRef' = IF LatchResets THEN FALSE ELSE userDisconnectedRef
  /\ balance' = IF FetchBalanceClears THEN Null ELSE balance
  /\ isLoading' = IF AutoSignStarts_simple THEN TRUE ELSE isLoading
  /\ inflight' = Started_simple
  /\ UNCHANGED <<isConnected, address, walletProvider, user, authToken,
                 sessionStorage, fastPath>>
  /\ UNCHANGED refusedFor
  /\ UNCHANGED transferVars

\* the wallet returns a signature: the flag of the captured address is set
SignMessageResolves_simple(c) ==
  /\ ~Dirty /\ c \in SigningAt("signMessage")
  /\ inflight' = Finish(inflight, c)
  /\ isSigned' = TRUE
  /\ localStorage' = localStorage \cup {c.address}
  /\ isLoading' = FALSE
  /\ UNCHANGED <<isConnected, address, walletProvider, balance, user,
                 authToken, userDisconnectedRef, sessionStorage, rendered,
                 fastPath>>
  /\ UNCHANGED refusedFor
  /\ UNCHANGED transferVars

handleDisconnect_simple ==
  /\ ~Dirty /\ DisconnectButtonShown
  /\ localStorage' = IF address # Null
                     THEN localStorage \ {address} ELSE localStorage
  /\ isSigned' = FALSE
  /\ userDisconnectedRef' = TRUE
  /\ inflight' = Start(inflight,
                       Call("handleDisconnect", "disconnect", Null, Null,
                            Null))
  /\ UNCHANGED <<isConnected, address, walletProvider, isLoading, balance,
                 user, authToken, sessionStorage, rendered, fastPath>>
  /\ UNCHANGED refusedFor
  /\ UNCHANGED transferVars

\* before the first render: localStorage may hold flags of earlier visits
Init_simple ==
  /\ isConnected = FALSE
  /\ address = Null
  /\ walletProvider = Null
  /\ isSigned = FALSE
  /\ isLoading = FALSE
  /\ balance = Null
  /\ user = Null
  /\ sessionStorage = Null
  /\ authToken = Null
  /\ userDisconnectedRef = FALSE
  /\ rendered = [mounted |-> FALSE, isConnected |-> FALSE, address |-> Null,
                 walletProvider |-> Null, isSigned |-> FALSE, user |-> Null,
                 authToken |-> Null]
  /\ inflight = EmptyBag
  /\ fastPath = Null
  /\ localStorage \in SUBSET Addrs
  /\ refusedFor = Null
  /\ refreshTrigger = 0
  /\ transferType = "SOL"
  /\ recipientAddress = ""
  /\ amount = ""
  /\ tokenMint = ""
  /\ isTransferring = FALSE
  /\ transferBalance = {}
  /\ error = Null

Next_simple ==
  \/ Commit_simple
  \/ \E a \in Addrs, p \in Providers \cup {Null} : ProviderConnect(a, p)
  \/ \E p \in Providers : WalletProviderReady(p)
  \/ ProviderDisconnect
  \/ \E z \in Addrs : AddressChange(z)
  \/ handleConnect
  \/ handleDisconnect_simple
  \/ \E c \in Pending : DisconnectDone(c)
  \/ \E c \in Pending : SignMessageResolves_simple(c)
  \/ \E c \in Pending : SignMessageEmpty(c)
  \/ \E c \in Pending : SignMessageRejects(c)
  \/ \E c \in Pending : ProviderDisconnectDone(c)
  \/ \E c \in Pending : ProviderDisconnectThrows(c)
  \/ \E c \in Pending : BalanceArrives(c)
  \/ \E c \in Pending : BalanceFails(c)

Spec_simple == Init_simple /\ [][Next_simple]_vars

\* the render after the connected address changed under an authenticated
\* session: the last render showed Authenticated for another address
AddressChangeRendered ==
  /\ Rendering /\ isConnected /\ address # Null
  /\ rendered.isConnected /\ rendered.isSigned
  /\ rendered.address # Null /\ rendered.address # address

\* C12 (simplified variant): handleDisconnect leaves no flag for the address
\* it was pressed under, and the render that follows a change of the
\* connected address under an authenticated session leaves no flag for the
\* address that was authenticated.
C12_FlagRemoved ==
  /\ [][(~Dirty /\ DisconnectButtonShown /\ userDisconnectedRef'
         /\ ~userDisconnectedRef)
          => address \notin localStorage']_vars
  /\ [][AddressChangeRendered => rendered.address \notin localStorage']_vars

\* the store holds a credential that a signing attempt of this page load
\* wrote
SignedCredentialStored == sessionStorage \in Tokens \ EarlierTokens

\* verifySession resumes in this step from a whoAmI call that was made with
\* another credential than the one now stored
LateWhoAmIAnswered ==
  \E c \in PendingOf("verifySession") :
    /\ inflight' = Finish(inflight, c)
    /\ c.token # sessionStorage

\* C13: no whoAmI call is in flight while a signing attempt is in progress,
\* and the answer to a whoAmI call made for an earlier credential leaves a
\* credential written by a signing attempt in the store and in memory.
C13_WhoAmIBeforeSigning ==
  /\ [](PendingOf("verifySession") = {} \/ SignAttempts = 0)
  /\ [][(LateWhoAmIAnswered /\ SignedCredentialStored)
          => UNCHANGED <<sessionStorage, authToken>>]_vars

\* whoAmI answers non-OK or fails in this step, on the credential that is
\* stored, with the wallet connected and the latch clear
WhoAmIRefuses ==
  \E c \in PendingOf("verifySession") :
    /\ WhoAmINotOk(c) \/ WhoAmIError(c)
    /\ isConnected /\ ~userDisconnectedRef /\ c.token = sessionStorage

\* the render that first sees the refused credential gone, the provider
\* being there
RefusalRendered ==
  /\ Rendering /\ refusedFor # Null /\ walletProvider # Null
  /\ rendered.authToken # Null /\ authToken = Null

\* the render that first sees the provider, after the credential was refused
ProviderRenderedAfterRefusal ==
  /\ Rendering /\ refusedFor # Null /\ walletProvider # Null
  /\ rendered.walletProvider = Null /\ rendered.authToken = Null
  /\ authToken = Null /\ ~isSigned

\* C14: a whoAmI call that answers non-OK or fails on the stored credential
\* (connected, latch clear) removes the credential from the store and from
\* memory and leaves the guard in ConnectedUnauthenticated; the render that
\* sees the credential gone, or the first one that has the provider, starts
\* handleSignMessage for the connected address.
C14_RefusedCredentialFallsThrough ==
  /\ [][WhoAmIRefuses
          => (sessionStorage' = Null /\ authToken' = Null
              /\ ConnectedUnauthenticated')]_vars
  /\ [][(RefusalRendered \/ ProviderRenderedAfterRefusal)
          => CopiesIn(SignCall, inflight')
               = CopiesIn(SignCall, inflight) + 1]_vars

\* settled after a refusal: the store is empty and handleSignMessage awaits
\* the wallet's signature for the address the refusal happened under
C14_Witness ==
  /\ Stable /\ isConnected /\ refusedFor = address /\ ~userDisconnectedRef
  /\ sessionStorage = Null /\ authToken = Null /\ ~isSigned /\ isLoading
  /\ \E c \in SigningAt("signMessage") : c.address = address

\* handleSignMessage call c fails in this step: the signature is rejected,
\* the verify request fails or is malformed, or verify answers success
\* false
AttemptFails(c) ==
  \/ SignMessageRejects(c)
  \/ VerifyError(c)
  \/ VerifyFailure(c)

\* C15: every failure of a signing attempt calls the disconnect of the
\* provider the attempt captured, exactly when that provider has one.
C15_FailureDisconnectsProvider ==
  [][\A c \in PendingOf("handleSignMessage") :
       AttemptFails(c)
         => (HasDisconnect(c.provider)
               <=> inflight' = Moves(c, "disconnect"))]_vars

\* the calls of handleSignMessage awaiting the wallet's signature
AwaitingSignature ==
  BagCardinality([c \in SigningAt("signMessage") |-> inflight[c]])

\* C16: a step on a failure path of handleSignMessage starts no signing
\* attempt itself and leaves the auto-sign effect with nothing to run on:
\* after it, none of the effect's dependencies differs from the last
\* render in a state where the effect would call handleSignMessage.
C16_NoAutomaticRetry ==
  [][SignAttemptFails
       => (AwaitingSignature' <= AwaitingSignature /\ ~AutoSignStarts')]_vars

\* a signing attempt has failed and ended on a provider that is still
\* connected: every condition of the auto-sign effect holds, and no attempt
\* is in progress
C16_Witness ==
  /\ Stable /\ isConnected /\ address # Null /\ HasDisconnect(walletProvider)
  /\ ~userDisconnectedRef /\ ~isSigned /\ authToken = Null
  /\ ~isLoading /\ SignAttempts = 0

\* the whoAmI calls in flight
WhoAmICalls ==
  BagCardinality([c \in PendingOf("verifySession") |-> inflight[c]])

\* C17: the latch is set only by handleDisconnect and cleared only by
\* handleConnect, and no step taken while it is set starts a whoAmI call or
\* a signature request.
C17_LatchDiscipline ==
  /\ [][(~userDisconnectedRef /\ userDisconnectedRef') => handleDisconnect]_vars
  /\ [][(userDisconnectedRef /\ ~userDisconnectedRef') => handleConnect]_vars
  /\ [][userDisconnectedRef
          => (WhoAmICalls' <= WhoAmICalls
              /\ AwaitingSignature' <= AwaitingSignature)]_vars

\* the provider has reported a new connection after an explicit disconnect
\* was processed and the latch is still set: every other condition of the
\* auto-sign effect holds, and nothing was started
C17_Witness ==
  /\ Stable /\ userDisconnectedRef /\ PendingOf("handleDisconnect") = {}
  /\ isConnected /\ address # Null /\ walletProvider # Null
  /\ ~isSigned /\ authToken = Null
  /\ SignAttempts = 0 /\ WhoAmICalls = 0

DisconnectCall == Call("handleDisconnect", "disconnect", Null, Null, Null)

\* the Disconnect Wallet button is pressed in this step: AppKit's disconnect
\* is requested
DisconnectPressed ==
  CopiesIn(DisconnectCall, inflight') = CopiesIn(DisconnectCall, inflight) + 1

\* the render that shows the effects a disconnect while the latch is set
ExplicitDisconnectRendered ==
  /\ Rendering /\ rendered.isConnected /\ ~isConnected
  /\ userDisconnectedRef

\* C18: pressing Disconnect sets the latch, empties the store slot, the
\* signed flag, the user record and the in-memory credential and requests
\* AppKit's disconnect; the render that processes the disconnect leaves the
\* guard disconnected with the latch set and all of them empty.
C18_ExplicitDisconnectClearsSession ==
  /\ [][DisconnectPressed => (userDisconnectedRef' /\ Purged')]_vars
  /\ [][ExplicitDisconnectRendered
          => (~isConnected' /\ userDisconnectedRef' /\ Purged')]_vars

\* the explicit disconnect has been processed: disconnected, latch set,
\* nothing left of the session, no disconnect request pending
C18_Witness ==
  /\ Stable /\ ~isConnected /\ userDisconnectedRef /\ Purged
  /\ PendingOf("handleDisconnect") = {} /\ balance = Null

\* a call of handleSignMessage reaches provider.signMessage in this step
SigningStarts == AwaitingSignature' > AwaitingSignature

\* whoAmI has been asked about the credential that is stored and has not
\* answered yet
AwaitingValidation ==
  \E c \in PendingOf("verifySession") : c.token = sessionStorage

\* C19: a credential in the store is always held in memory too, and a
\* signature request starts only in a render whose state is connected with
\* an address and a provider, unsigned, latch clear, with no credential in
\* memory or in the store and no whoAmI call pending on a stored
\* credential; the request is for the connected address.
C19_AutoSignPrecondition ==
  /\ [](sessionStorage # Null => authToken # Null)
  /\ [][SigningStarts
          => /\ Rendering
             /\ isConnected /\ address # Null /\ walletProvider # Null
             /\ ~isSigned /\ ~userDisconnectedRef
             /\ authToken = Null /\ sessionStorage = Null
             /\ ~AwaitingValidation
             /\ CopiesIn(SignCall, inflight')
                  = CopiesIn(SignCall, inflight) + 1]_vars

\* a fresh connection with an empty store: no whoAmI call was made, and
\* handleSignMessage awaits the signature for the connected address
C19_Witness ==
  /\ Stable /\ isConnected /\ ~userDisconnectedRef /\ refusedFor = Null
  /\ ~isSigned /\ authToken = Null /\ sessionStorage = Null
  /\ WhoAmICalls = 0 /\ AwaitingSignature = 1
  /\ \E c \in SigningAt("signMessage") :
       c.address = address /\ c.provider = walletProvider

\* handleSignMessage call c returns in this step: its last awaited call has
\* come back, with a result or an error
AttemptEnds(c) ==
  /\ c \in PendingOf("handleSignMessage")
  /\ inflight' = Finish(inflight, c)

\* C20: the step in which a signing attempt returns, whatever its outcome,
\* leaves isLoading false, so the guard is in Authenticated, in
\* ConnectedUnauthenticated or disconnected, and not in Authenticating; and
\* isLoading is never true when no attempt is in progress.
C20_AttemptEndsLoading ==
  /\ [][\A c \in Pending :
          AttemptEnds(c)
            => /\ ~isLoading' /\ ~Authenticating'
               /\ Authenticated' \/ ConnectedUnauthenticated'
                    \/ ~isConnected']_vars
  /\ [](SignAttempts = 0 => ~isLoading)

\* a signing attempt on a provider without disconnect has ended in an
\* error: the wallet is still connected, unauthenticated, nothing is in
\* flight and the guard is not loading
C20_Witness ==
  /\ Stable /\ isConnected /\ walletProvider = "pNoDisc" /\ address # Null
  /\ ~userDisconnectedRef /\ authToken = Null
  /\ ConnectedUnauthenticated /\ inflight = EmptyBag

\* the in-memory credential is purged in this step
CredentialPurged == authToken # Null /\ authToken' = Null

\* C21: a user record is held only together with a credential, and every
\* step that purges the credential clears the user record with it.
C21_UserImpliesCredential ==
  /\ [](user # Null => authToken # Null)
  /\ [][CredentialPurged => user' = Null]_vars

\* the render that shows the effects that the wallet, connected with an
\* address at the last render, is disconnected
DisconnectRendered ==
  /\ Rendering /\ ~isConnected
  /\ rendered.isConnected /\ rendered.address # Null

\* C22 (simplified variant): the render that processes a disconnect, asked
\* for or not, leaves isSigned false and no flag for the address that was
\* connected.
C22_DisconnectClearsFlag ==
  [][DisconnectRendered
       => (~isSigned' /\ rendered.address \notin localStorage')]_vars

\* no handler is between two of its awaits and no render is pending
Quiescent ==
  /\ Stable
  /\ PendingOf("verifySession") = {}
  /\ PendingOf("handleSignMessage") = {}
  /\ PendingOf("handleDisconnect") = {}

\* C23: whenever no handler is in progress, the in-memory credential and
\* the store slot hold the same value.
C23_CredentialAgreesWithStore ==
  Quiescent => authToken = sessionStorage

\* connected with a provider, latch clear, unsigned, nothing being validated
\* or signed, and a credential in memory that keeps the auto-sign effect
\* from calling handleSignMessage
DeadState ==
  /\ Stable /\ isConnected /\ address # Null /\ walletProvider # Null
  /\ ~userDisconnectedRef /\ ~isSigned
  /\ WhoAmICalls = 0 /\ SignAttempts = 0
  /\ authToken # Null

\* C24: the guard never rests connected and unsigned with a credential in
\* memory while no whoAmI call and no signing attempt is in flight.
C24_NoDeadState == ~DeadState

\* C25 (simplified variant): whenever the guard rests connected and signed,
\* the flag wallet_signed_<address> of the connected address is set; an
\* address without a flag is never shown as authenticated.
C25_SignedImpliesFlag ==
  (Stable /\ isConnected /\ address # Null /\ isSigned)
    => address \in localStorage

\* the step sets the cached balance to a value
BalanceSet == balance' # Null /\ balance' # balance

\* C26: a balance is cached only while the guard is connected and signed, and
\* it is the balance of the connected address; no answer of a balance fetch
\* sets the balance of another address or of a signed-out session.
C26_BalanceOfConnectedAddress ==
  /\ [](Stable /\ balance # Null
          => (isConnected /\ isSigned /\ balance = address))
  /\ [][BalanceSet => (isConnected /\ isSigned /\ balance' = address)]_vars

----------------------------------------------------------------------------
\* TokenTransfer (src/unnamed/part_002), mounted by SignAndConnect with the
\* authenticated view.  transferBalance is the component's own balance state:
\* {} for null, {b} for b SOL.

\* confirmed transfers the callback counter is followed for
MaxTransfers == 2

TransferTypes == {"SOL", "SPL"}

\* what the two text inputs can hold: nothing, blanks, a string that is no
\* base58 public key, a public key
Recipients == {"", " ", "bad", "R1"}

Mints == {"", " ", "bad", "M1"}

\* what the number input can hold: nothing or a decimal
Amounts == {"", "0", "1", "3"}

\* the SOL balance connection.getBalance reports
Balances == {2}

\* the messages of the errors the wallet and the RPC node throw
Thrown == {"User rejected the request.", "insufficient lamports", ""}

\* signature.slice on an undefined signature
TypeErrorMessage == "Cannot read properties of undefined (reading 'slice')"

\* String.prototype.trim on the strings of the model
Trim(s) == IF s = " " THEN "" ELSE s

\* new PublicKey(s) does not throw
IsPublicKey(s) == s \in {"R1", "M1"}

\* parseFloat on the decimals of the model
parseFloat(s) ==
  CASE s = "0" -> 0
    [] s = "1" -> 1
    [] s = "3" -> 3

\* String.prototype.includes on the messages of the model
Includes(m, w) ==
  <<m, w>> \in {<<"User rejected the request.", "User rejected">>,
               <<"insufficient lamports", "insufficient">>}

\* mutant: an amount of 0 passes
validateInputs_AllowsZero ==
  IF Trim(recipientAddress) = "" THEN "Recipient address is required"
  ELSE IF ~IsPublicKey(recipientAddress) THEN "Invalid recipient address"
  ELSE IF amount = "" \/ parseFloat(amount) < 0
  THEN "Amount must be greater than 0"
  ELSE IF transferType = "SPL" /\ Trim(tokenMint) = ""
  THEN "Token mint address is required for SPL transfers"
  ELSE IF transferType = "SPL" /\ ~IsPublicKey(tokenMint)
  THEN "Invalid token mint address"
  ELSE IF /\ transferType = "SOL" /\ transferBalance # {}
          /\ \E b \in transferBalance : parseFloat(amount) > b
  THEN "Insufficient balance"
  ELSE Null

\* validateInputs: the error it sets, Null when it returns true
validateInputs ==
  IF Trim(recipientAddress) = "" THEN "Recipient address is required"
  ELSE IF ~IsPublicKey(recipientAddress) THEN "Invalid recipient address"
  ELSE IF amount = "" \/ parseFloat(amount) <= 0
  THEN "Amount must be greater than 0"
  ELSE IF transferType = "SPL" /\ Trim(tokenMint) = ""
  THEN "Token mint address is required for SPL transfers"
  ELSE IF transferType = "SPL" /\ ~IsPublicKey(tokenMint)
  THEN "Invalid token mint address"
  ELSE IF /\ transferType = "SOL" /\ transferBalance # {}
          /\ \E b \in transferBalance : parseFloat(amount) > b
  THEN "Insufficient balance"
  ELSE Null

\* the catch block of handleTransfer: the error shown for a thrown message
ErrorShown(m) ==
  IF \/ Includes(m, "not been authorized") \/ Includes(m, "User rejected")
     \/ Includes(m, "denied")
  THEN "Transaction rejected. Please approve the transaction in your wallet."
  ELSE IF Includes(m, "insufficient")
  THEN "Insufficient funds for this transaction."
  ELSE IF m # "" THEN m ELSE "Transfer failed. Please try again."

\* the awaits of handleTransferSOL and handleTransferSPL, in order
FirstStage(t) ==
  IF t = "SOL" THEN "getLatestBlockhash" ELSE "getSenderTokenAccount"

NextStage(at) ==
  CASE at = "getSenderTokenAccount" -> "getRecipientTokenAccount"
    [] at = "getRecipientTokenAccount" -> "getLatestBlockhash"
    [] at = "getLatestBlockhash" -> "signTransaction"
    [] at = "signTransaction" -> "sendRawTransaction"
    [] at = "sendRawTransaction" -> "confirmTransaction"
    [] at = "confirmTransaction" -> "verifyTransaction"

\* the state of SignAndConnect that TokenTransfer does not write
guardVars == <<isConnected, address, walletProvider, isSigned, isLoading,
               balance, user, authToken, userDisconnectedRef, sessionStorage,
               rendered, fastPath, localStorage, refusedFor>>

\* mutant: the button is not disabled while a transfer is in progress
SendButtonEnabled_IgnoresTransferring ==
  recipientAddress # "" /\ amount # ""

\* the send button is not disabled
SendButtonEnabled ==
  ~isTransferring /\ recipientAddress # "" /\ amount # ""

\* the transfer type buttons
setTransferType(t) ==
  /\ ~Dirty /\ TokenTransferShown /\ t # transferType
  /\ transferType' = t
  /\ UNCHANGED <<refreshTrigger, recipientAddress, amount, tokenMint,
                 isTransferring, transferBalance, error, inflight>>
  /\ UNCHANGED guardVars

\* the inputs, disabled while a transfer is in progress
setRecipientAddress(r) ==
  /\ ~Dirty /\ TokenTransferShown /\ ~isTransferring /\ r # recipientAddress
  /\ recipientAddress' = r
  /\ UNCHANGED <<refreshTrigger, transferType, amount, tokenMint,
                 isTransferring, transferBalance, error, inflight>>
  /\ UNCHANGED guardVars

setAmount(a) ==
  /\ ~Dirty /\ TokenTransferShown /\ ~isTransferring /\ a # amount
  /\ amount' = a
  /\ UNCHANGED <<refreshTrigger, transferType, recipientAddress, tokenMint,
                 isTransferring, transferBalance, error, inflight>>
  /\ UNCHANGED guardVars

setTokenMint(m) ==
  /\ ~Dirty /\ TokenTransferShown /\ ~isTransferring /\ m # tokenMint
  /\ transferType = "SPL"
  /\ tokenMint' = m
  /\ UNCHANGED <<refreshTrigger, transferType, recipientAddress, amount,
                 isTransferring, transferBalance, error, inflight>>
  /\ UNCHANGED guardVars

\* the send button is pressed: handleTransfer up to its first await
handleTransfer ==
  /\ ~Dirty /\ ~Busy /\ TokenTransferShown /\ SendButtonEnabled
  /\ refreshTrigger < MaxTransfers
  /\ IF validateInputs # Null
     THEN /\ error' = validateInputs
          /\ UNCHANGED <<recipientAddress, amount, tokenMint, isTransferring,
                         inflight>>
     ELSE IF walletProvider = Null \/ address = Null
     THEN \* handleTransferSOL and handleTransferSPL return undefined: the
          \* form is cleared, signature.slice throws and the catch block
          \* shows the TypeError
          /\ recipientAddress' = ""
          /\ amount' = ""
          /\ tokenMint' = ""
          /\ error' = ErrorShown(TypeErrorMessage)
          /\ isTransferring' = FALSE
          /\ UNCHANGED inflight
     ELSE /\ isTransferring' = TRUE
          /\ error' = Null
          /\ inflight' = Start(inflight,
                               Call("handleTransfer", FirstStage(transferType),
                                    address, Null, walletProvider))
          /\ UNCHANGED <<recipientAddress, amount, tokenMint>>
  /\ UNCHANGED <<refreshTrigger, transferType, transferBalance>>
  /\ UNCHANGED guardVars

\* an await of handleTransferSOL / handleTransferSPL resolves
TransferStepResolves(c) ==
  /\ ~Dirty /\ c \in PendingOf("handleTransfer")
  /\ c.at \notin {"verifyTransaction", "getBalance"}
  /\ inflight' = Start(Finish(inflight, c),
                       [c EXCEPT !.at = NextStage(c.at)])
  /\ UNCHANGED transferVars
  /\ UNCHANGED guardVars

\* an await throws: the wallet rejects, the RPC node fails; the error is
\* rethrown to handleTransfer's catch, then finally
TransferThrows(c, m) ==
  /\ ~Dirty /\ c \in PendingOf("handleTransfer")
  /\ c.at # "verifyTransaction"
  /\ inflight' = Finish(inflight, c)
  /\ error' = ErrorShown(m)
  /\ isTransferring' = FALSE
  /\ UNCHANGED <<refreshTrigger, transferType, recipientAddress, amount,
                 tokenMint, transferBalance>>
  /\ UNCHANGED guardVars

\* verifyTransactionWithBackend returns (it catches its own errors) and the
\* signature is returned to handleTransfer: form cleared, alert,
\* onTransactionComplete, then the await of getBalance
TransactionVerified(c) ==
  /\ ~Dirty /\ c \in PendingOf("handleTransfer")
  /\ c.at = "verifyTransaction"
  /\ recipientAddress' = ""
  /\ amount' = ""
  /\ tokenMint' = ""
  /\ refreshTrigger' = refreshTrigger + 1
  /\ inflight' = Start(handleTransactionComplete(Finish(inflight, c),
                                                 c.address),
                       [c EXCEPT !.at = "getBalance"])
  /\ UNCHANGED <<transferType, isTransferring, transferBalance, error>>
  /\ UNCHANGED guardVars

\* the balance refresh at the end of handleTransfer resolves, then finally
BalanceRefreshed(c, b) ==
  /\ ~Dirty /\ c \in PendingOf("handleTransfer")
  /\ c.at = "getBalance"
  /\ inflight' = Finish(inflight, c)
  /\ transferBalance' = {b}
  /\ isTransferring' = FALSE
  /\ UNCHANGED <<refreshTrigger, transferType, recipientAddress, amount,
                 tokenMint, error>>
  /\ UNCHANGED guardVars

\* the fetchBalance effect of TokenTransfer resumes after getBalance
TransferBalanceArrives(c, b) ==
  /\ ~Dirty /\ c \in PendingOf("TokenTransfer.fetchBalance")
  /\ inflight' = Finish(inflight, c)
  /\ transferBalance' = {b}
  /\ UNCHANGED <<refreshTrigger, transferType, recipientAddress, amount,
                 tokenMint, isTransferring, error>>
  /\ UNCHANGED guardVars

\* its catch block only logs
TransferBalanceFails(c) ==
  /\ ~Dirty /\ c \in PendingOf("TokenTransfer.fetchBalance")
  /\ inflight' = Finish(inflight, c)
  /\ UNCHANGED transferVars
  /\ UNCHANGED guardVars

\* the render in which SignAndConnect became authenticated (a state of Spec)
\* has mounted TokenTransfer: the fetchBalance effects of both components
\* have started
Init_transfer ==
  /\ isConnected = TRUE
  /\ address \in Addrs
  /\ walletProvider \in Providers \cup {Null}
  /\ isSigned = TRUE
  /\ isLoading = FALSE
  /\ balance = Null
  /\ user = address
  /\ sessionStorage = Issued(address)
  /\ authToken = sessionStorage
  /\ userDisconnectedRef = FALSE
  /\ rendered = Deps
  /\ inflight = SetToBag({Call("fetchBalance", "getBalance", address, Null,
                               Null),
                          Call("TokenTransfer.fetchBalance", "getBalance",
                               address, Null, Null)})
  /\ fastPath = Null
  /\ localStorage = {}
  /\ refusedFor = Null
  /\ refreshTrigger = 0
  /\ transferType = "SOL"
  /\ recipientAddress = ""
  /\ amount = ""
  /\ tokenMint = ""
  /\ isTransferring = FALSE
  /\ transferBalance = {}
  /\ error = Null

Next_transfer ==
  \/ \E t \in TransferTypes : setTransferType(t)
  \/ \E r \in Recipients : setRecipientAddress(r)
  \/ \E a \in Amounts : setAmount(a)
  \/ \E m \in Mints : setTokenMint(m)
  \/ handleTransfer
  \/ \E c \in Pending : TransferStepResolves(c)
  \/ \E c \in Pending, m \in Thrown : TransferThrows(c, m)
  \/ \E c \in Pending : TransactionVerified(c)
  \/ \E c \in Pending, b \in Balances : BalanceRefreshed(c, b)
  \/ \E c \in Pending, b \in Balances : TransferBalanceArrives(c, b)
  \/ \E c \in Pending : TransferBalanceFails(c)
  \/ \E c \in Pending : BalanceArrives(c)
  \/ \E c \in Pending : BalanceFails(c)
  \/ \E c \in Pending : RefreshArrives(c)
  \/ \E c \in Pending : RefreshFails(c)

Spec_transfer == Init_transfer /\ [][Next_transfer]_vars

\* the transfers in progress: calls of handleTransfer between
\* setIsTransferring(true) and the finally block
TransfersInFlight ==
  BagCardinality([c \in PendingOf("handleTransfer") |-> inflight[c]])

\* C27 (TokenTransfer): at most one transfer is in progress; a transfer
\* starts only while isTransferring is false, holds it true while it is in
\* progress, and the step in which it ends, whatever the outcome, leaves it
\* false, so that isTransferring is true exactly while a transfer is in
\* progress and the send button is enabled again afterwards.
C27_SingleTransfer ==
  /\ [](TransfersInFlight <= 1)
  /\ [](isTransferring <=> TransfersInFlight = 1)
  /\ [][TransfersInFlight' > TransfersInFlight
          => (~isTransferring /\ isTransferring')]_vars
  /\ [][TransfersInFlight' < TransfersInFlight => ~isTransferring']_vars

\* a transfer is in progress after an earlier one was confirmed and after
\* the form was filled in again
C27_Witness ==
  /\ refreshTrigger = 1 /\ TransfersInFlight = 1 /\ isTransferring
  /\ recipientAddress # "" /\ amount # ""

\* the handler empties the three fields / leaves them as they are
FormCleared == recipientAddress' = "" /\ amount' = "" /\ tokenMint' = ""

FormKept == UNCHANGED <<recipientAddress, amount, tokenMint>>

\* onTransactionComplete is invoked in this step
Invoked == refreshTrigger' # refreshTrigger

\* the step returns a confirmed transaction's signature to handleTransfer
ConfirmedStep == \E c \in Pending : TransactionVerified(c)

\* the step ends a press of the send button in any other way: validation
\* failure, missing wallet provider or address, or an error thrown before
\* the transaction is confirmed
OtherOutcome ==
  \/ handleTransfer /\ ~isTransferring'
  \/ \E c \in Pending, m \in Thrown :
       c.at # "getBalance" /\ TransferThrows(c, m)

\* C28 (TokenTransfer): the form is cleared and onTransactionComplete is
\* invoked by the step that follows a confirmed transaction and by no other;
\* every other outcome keeps the fields, does not invoke the callback and
\* shows an error.
C28_ClearedOnlyWhenConfirmed ==
  /\ [][ConfirmedStep => (FormCleared /\ Invoked)]_vars
  /\ [][Invoked => ConfirmedStep]_vars
  /\ [][OtherOutcome => (FormKept /\ ~Invoked /\ error' # Null)]_vars

\* the conditions of a valid form, one by one
RecipientGiven == Trim(recipientAddress) # ""

RecipientValid == IsPublicKey(recipientAddress)

AmountPositive == amount # "" /\ parseFloat(amount) > 0

MintGiven == transferType = "SPL" => Trim(tokenMint) # ""

MintValid == transferType = "SPL" => IsPublicKey(tokenMint)

WithinBalance ==
  (transferType = "SOL" /\ amount # "")
    => \A b \in transferBalance : parseFloat(amount) <= b

InputsValid ==
  /\ RecipientGiven /\ RecipientValid /\ AmountPositive
  /\ MintGiven /\ MintValid /\ WithinBalance

\* the checks in the order of the list, each with the error of its failure
Checks ==
  << <<RecipientGiven, "Recipient address is required">>,
     <<RecipientValid, "Invalid recipient address">>,
     <<AmountPositive, "Amount must be greater than 0">>,
     <<MintGiven, "Token mint address is required for SPL transfers">>,
     <<MintValid, "Invalid token mint address">>,
     <<WithinBalance, "Insufficient balance">> >>

FirstFailing ==
  LET failing == {i \in 1..6 : ~Checks[i][1]}
  IN  Checks[CHOOSE i \in failing : \A j \in failing : i <= j][2]

\* C29 (TokenTransfer): a transfer starts (and with it the request for a
\* wallet signature and the submission) only from a valid form; a press of
\* the send button on an invalid form starts nothing, leaves isTransferring
\* false and shows the error of the first failing check.
C29_ValidationGatesTransfer ==
  /\ [][TransfersInFlight' > TransfersInFlight => InputsValid]_vars
  /\ [][(handleTransfer /\ ~InputsValid)
          => /\ ~isTransferring' /\ UNCHANGED inflight
             /\ error' = FirstFailing]_vars

\* the send button was pressed for more SOL than the known balance: the
\* insufficient-balance error is shown and nothing is in progress
C29_Witness ==
  /\ error = "Insufficient balance" /\ ~isTransferring
  /\ TransfersInFlight = 0
  /\ transferType = "SOL" /\ amount = "3" /\ transferBalance = {2}
  /\ RecipientValid

============================================================================
